---- MODULE Spec2Model ----
(***************************************************************************)
(* The SPL lexer of src/lexer.py as a state machine.                       *)
(*                                                                         *)
(* The lexer object built at lexer.py:367 holds the input buffer (lexdata),*)
(* the scan position (lexpos) and the line counter (lineno).  input(text)  *)
(* installs a new buffer; token() scans until a rule function returns a    *)
(* token or the buffer is exhausted.  Text is a sequence of one-character  *)
(* strings; positions are 0-based as in the source.                        *)
(*                                                                         *)
(* With it, the syntax tree of src/ast.py: the node classes, and print_ast *)
(* and ast_to_dict as operators applied to a tree.                         *)
(***************************************************************************)
EXTENDS Integers, Sequences, FiniteSets, TLC

VARIABLES lexdata, lexpos, lineno, phase, toks, diags, steps, line0,
          prev, mine, root, result, output

astVars == <<root, result, output>>

vars == <<lexdata, lexpos, lineno, phase, toks, diags, steps, line0,
          prev, mine, astVars>>

\* Python's None, as a node: a record of its class name
None == [cls |-> "NoneType"]

----------------------------------------------------------------------------
(* Characters and the string operations the rule functions use.            *)

UpperSeq == <<"A","B","C","D","E","F","G","H","I","J","K","L","M",
              "N","O","P","Q","R","S","T","U","V","W","X","Y","Z">>

LowerSeq == <<"a","b","c","d","e","f","g","h","i","j","k","l","m",
              "n","o","p","q","r","s","t","u","v","w","x","y","z">>

Upper == {UpperSeq[i] : i \in DOMAIN UpperSeq}

Lower == {LowerSeq[i] : i \in DOMAIN LowerSeq}

Digits == {"0","1","2","3","4","5","6","7","8","9"}

DigitSeq == <<"0","1","2","3","4","5","6","7","8","9">>

\* [a-zA-Z_] and [a-zA-Z0-9_] of t_IDENTIFIER
IdentStart == Upper \cup Lower \cup {"_"}

IdentChar == IdentStart \cup Digits

\* what str.strip() removes and str.isspace() accepts
Whitespace == {" ", "\t", "\n", "\r", "\f"}

\* t_ignore
Ignore == {" ", "\t"}

IndexIn(c, seq) == CHOOSE i \in DOMAIN seq : seq[i] = c

\* str.upper() / str.lower() on one character
UpperChar(c) == IF c \in Lower THEN UpperSeq[IndexIn(c, LowerSeq)] ELSE c

LowerChar(c) == IF c \in Upper THEN LowerSeq[IndexIn(c, UpperSeq)] ELSE c

ToUpper(s) == [i \in DOMAIN s |-> UpperChar(s[i])]

ToLower(s) == [i \in DOMAIN s |-> LowerChar(s[i])]

Min(a, b) == IF a < b THEN a ELSE b

Max(a, b) == IF a > b THEN a ELSE b

\* the Python slice s[a:b], 0 <= a
Slice(s, a, b) == SubSeq(s, a + 1, Min(b, Len(s)))

\* s.strip()
Strip(s) ==
  LET keep == {i \in DOMAIN s : s[i] \notin Whitespace}
  IN IF keep = {} THEN <<>>
     ELSE SubSeq(s, CHOOSE i \in keep : \A j \in keep : i <= j,
                    CHOOSE i \in keep : \A j \in keep : i >= j)

\* s.rfind(c): 0-based index of the last c, or -1
RFind(s, c) ==
  LET at == {i \in DOMAIN s : s[i] = c}
  IN IF at = {} THEN -1 ELSE (CHOOSE i \in at : \A j \in at : i >= j) - 1

\* s.count(c)
Count(s, c) == Cardinality({i \in DOMAIN s : s[i] = c})

StartsWith(s, lit) == Len(s) >= Len(lit) /\ SubSeq(s, 1, Len(lit)) = lit

EndsWith(s, lit) ==
  Len(s) >= Len(lit) /\ SubSeq(s, Len(s) - Len(lit) + 1, Len(s)) = lit

\* int(text) of a run of decimal digits
RECURSIVE ToInt(_)
ToInt(s) ==
  IF s = <<>> THEN 0
  ELSE 10 * ToInt(SubSeq(s, 1, Len(s) - 1)) + (IndexIn(s[Len(s)], DigitSeq) - 1)

----------------------------------------------------------------------------
(* The token rules, in the order PLY tries them: function rules are joined *)
(* into one alternation in order of definition, and the first alternative  *)
(* that matches at the scan position wins.                                 *)

\* (mutant) the one-character comparison rules defined before the
\* two-character ones
RuleOrderSinglesFirst ==
  <<"ROLE", "USER", "RESOURCE", "ALLOW", "DENY", "IF", "ON", "AND", "OR",
    "CAN", "PATH", "ACTION", "GT", "LT", "GE", "LE", "EQ", "NE", "PLUS",
    "MINUS", "TIMES", "DIVIDE", "LBRACE", "RBRACE", "LPAREN", "RPAREN",
    "COLON", "DOT", "COMMA", "STRING", "NUMBER", "IDENTIFIER", "newline">>

RuleOrder ==
  <<"ROLE", "USER", "RESOURCE", "ALLOW", "DENY", "IF", "ON", "AND", "OR",
    "CAN", "PATH", "ACTION", "GE", "LE", "EQ", "NE", "PLUS", "MINUS",
    "TIMES", "DIVIDE", "GT", "LT", "LBRACE", "RBRACE", "LPAREN", "RPAREN",
    "COLON", "DOT", "COMMA", "STRING", "NUMBER", "IDENTIFIER", "newline">>

\* the literal text of the rules whose pattern is a fixed string
Literal(rule) ==
  CASE rule = "ROLE"     -> <<"R","O","L","E">>
    [] rule = "USER"     -> <<"U","S","E","R">>
    [] rule = "RESOURCE" -> <<"R","E","S","O","U","R","C","E">>
    [] rule = "ALLOW"    -> <<"A","L","L","O","W">>
    [] rule = "DENY"     -> <<"D","E","N","Y">>
    [] rule = "IF"       -> <<"I","F">>
    [] rule = "ON"       -> <<"O","N">>
    [] rule = "AND"      -> <<"A","N","D">>
    [] rule = "OR"       -> <<"O","R">>
    [] rule = "CAN"      -> <<"C","A","N">>
    [] rule = "PATH"     -> <<"P","A","T","H">>
    [] rule = "ACTION"   -> <<"A","C","T","I","O","N">>
    [] rule = "GE"       -> <<">","=">>
    [] rule = "LE"       -> <<"<","=">>
    [] rule = "EQ"       -> <<"=","=">>
    [] rule = "NE"       -> <<"!","=">>
    [] rule = "PLUS"     -> <<"+">>
    [] rule = "MINUS"    -> <<"-">>
    [] rule = "TIMES"    -> <<"*">>
    [] rule = "DIVIDE"   -> <<"/">>
    [] rule = "GT"       -> <<">">>
    [] rule = "LT"       -> <<"<">>
    [] rule = "LBRACE"   -> <<"{">>
    [] rule = "RBRACE"   -> <<"}">>
    [] rule = "LPAREN"   -> <<"(">>
    [] rule = "RPAREN"   -> <<")">>
    [] rule = "COLON"    -> <<":">>
    [] rule = "DOT"      -> <<".">>
    [] rule = "COMMA"    -> <<",">>

\* the rules whose pattern is written letter by letter in both cases
CaseInsensitive == {"CAN", "PATH", "ACTION"}

\* the end of the longest run of characters of S starting at pos
RunEnd(data, pos, S) ==
  LET stop == {i \in pos .. Len(data) - 1 : data[i + 1] \notin S}
  IN IF stop = {} THEN Len(data) ELSE CHOOSE i \in stop : \A j \in stop : i <= j

\* "[^"]*" : an opening quote, anything but a quote, a closing quote
StringEnd(data, pos) ==
  LET close == {i \in pos + 1 .. Len(data) - 1 : data[i + 1] = "\""}
  IN IF data[pos + 1] = "\"" /\ close # {}
     THEN (CHOOSE i \in close : \A j \in close : i <= j) + 1
     ELSE -1

\* \d+
NumberEnd(data, pos) ==
  IF data[pos + 1] \in Digits THEN RunEnd(data, pos, Digits) ELSE -1

\* [a-zA-Z_][a-zA-Z0-9_]*
IdentifierEnd(data, pos) ==
  IF data[pos + 1] \in IdentStart THEN RunEnd(data, pos + 1, IdentChar) ELSE -1

\* \n+
NewlineEnd(data, pos) ==
  IF data[pos + 1] = "\n" THEN RunEnd(data, pos, {"\n"}) ELSE -1

\* (mutant) every literal rule compared without regard to letter case
LiteralEndAnyCase(rule, data, pos) ==
  LET lit == Literal(rule)
  IN IF ToUpper(Slice(data, pos, pos + Len(lit))) = lit
     THEN pos + Len(lit) ELSE -1

LiteralEnd(rule, data, pos) ==
  LET lit  == Literal(rule)
      text == Slice(data, pos, pos + Len(lit))
  IN IF (IF rule \in CaseInsensitive THEN ToUpper(text) ELSE text) = lit
     THEN pos + Len(lit) ELSE -1

\* where the rule's pattern ends when matched at pos (pos < Len(data)), or -1
MatchEnd(rule, data, pos) ==
  CASE rule = "STRING"     -> StringEnd(data, pos)
    [] rule = "NUMBER"     -> NumberEnd(data, pos)
    [] rule = "IDENTIFIER" -> IdentifierEnd(data, pos)
    [] rule = "newline"    -> NewlineEnd(data, pos)
    [] OTHER               -> LiteralEnd(rule, data, pos)

\* the index in RuleOrder of the first rule that matches at pos, or 0
FirstMatch(data, pos) ==
  LET hit == {k \in DOMAIN RuleOrder : MatchEnd(RuleOrder[k], data, pos) >= 0}
  IN IF hit = {} THEN 0 ELSE CHOOSE k \in hit : \A j \in hit : k <= j

\* the keywords dictionary: the spellings t_IDENTIFIER maps to a keyword type
KeywordType(value) ==
  LET up == {r \in {"ROLE", "USER", "RESOURCE", "ALLOW", "DENY", "IF", "ON",
                    "AND", "OR", "CAN", "PATH", "ACTION"} : Literal(r) = value}
      lo == {r \in CaseInsensitive : ToLower(Literal(r)) = value}
  IN IF up \cup lo = {} THEN "IDENTIFIER" ELSE CHOOSE r \in up \cup lo : TRUE

----------------------------------------------------------------------------
(* t_TIMES: WILDCARD or TIMES from the raw text around the scan position.   *)
(* PLY sets lexer.lexpos to the end of the match before it calls a rule    *)
(* function, so pos is the position just after the `*`.  The function's    *)
(* local variables are bound once, as in the source: bt is before_text     *)
(* (and before_full), bs is before_stripped, as is after_text.strip().     *)

\* "Look back up to 30 chars" / "Look ahead up to 30 chars"
Window == 30

BeforeText(data, pos) == Slice(data, Max(0, pos - Window), pos)

AfterText(data, pos) == Slice(data, pos + 1, Min(Len(data), pos + 1 + Window))

\* ':' in before_stripped
HasColon(bs) == RFind(bs, ":") >= 0

\* before_stripped[last_colon_pos + 1:].strip()
Between(bs) == Strip(Slice(bs, RFind(bs, ":") + 1, Len(bs)))

\* before_stripped[:before_stripped.rfind(':')].strip().lower()
BeforeColon(bs) == ToLower(Strip(Slice(bs, 0, RFind(bs, ":"))))

EndsWithAttribute(s) ==
  \/ EndsWith(s, <<"c","a","n">>)
  \/ EndsWith(s, <<"a","c","t","i","o","n">>)
  \/ EndsWith(s, <<"p","a","t","h">>)

\* lexer.py:198-217: only whitespace after the last colon, and a terminator next
ColonRule(bs, as) ==
  /\ HasColon(bs)
  /\ Between(bs) = <<>>
  /\ \/ StartsWith(as, <<"}">>)
     \/ StartsWith(as, <<",">>)
     \/ as = <<>>
     \/ as[1] \in Whitespace
     \/ StartsWith(as, <<"O","N">>)
     \/ StartsWith(as, <<"I","F">>)
     \/ StartsWith(as, <<"A","N","D">>)
     \/ StartsWith(as, <<"O","R">>)

\* (mutant) the brace rule asking, like the attribute rule, that nothing
\* but the `*` follow the colon
BraceRuleRightAfterColon(bt, bs) ==
  /\ Count(bt, "{") > Count(bt, "}")
  /\ HasColon(bs)
  /\ Between(bs) = <<"*">>

\* lexer.py:219-226: more '{' than '}' in the look-back text, and a colon in it
BraceRule(bt, bs) == Count(bt, "{") > Count(bt, "}") /\ HasColon(bs)

\* lexer.py:228-244: can / action / path before the colon, nothing after it
AttributeRule(bs) ==
  /\ HasColon(bs)
  /\ \E bc \in {BeforeColon(bs)} :
       \/ EndsWithAttribute(bc)
       \/ EndsWith(bc, <<"c","a","n"," ">>)
       \/ EndsWith(bc, <<"a","c","t","i","o","n"," ">>)
       \/ EndsWith(bc, <<"p","a","t","h"," ">>)
  /\ Between(bs) = <<>>

\* (mutant) the trailing-keyword rule without its test for a colon
TrailingRuleNoColon(bs, as) ==
  StartsWith(as, <<"O","N">>) \/ StartsWith(as, <<"I","F">>)

\* lexer.py:246-256: ON or IF in the look-ahead text, attribute before the colon
TrailingRule(bs, as) ==
  /\ StartsWith(as, <<"O","N">>) \/ StartsWith(as, <<"I","F">>)
  /\ HasColon(bs)
  /\ EndsWithAttribute(BeforeColon(bs))

\* is_wildcard as t_TIMES leaves it (lexer.py:277-280 reads nothing else)
IsWildcard(data, pos) ==
  \E bt \in {BeforeText(data, pos)} :
    \E bs \in {Strip(bt)}, as \in {Strip(AfterText(data, pos))} :
      \/ ColonRule(bs, as)
      \/ BraceRule(bt, bs)
      \/ AttributeRule(bs)
      \/ TrailingRule(bs, as)

TimesType(data, pos) == IF IsWildcard(data, pos) THEN "WILDCARD" ELSE "TIMES"

----------------------------------------------------------------------------
(* token(): one pass of the scan loop, and the loop.                       *)

NoToken == [type |-> "none"]

\* the token a rule function returns for the match data[pos:end]
RuleToken(rule, data, pos, end, line) ==
  LET text == Slice(data, pos, end)
  IN [type   |-> CASE rule = "TIMES"      -> TimesType(data, end)
                   [] rule = "IDENTIFIER" -> KeywordType(text)
                   [] OTHER               -> rule,
      value  |-> CASE rule \in CaseInsensitive -> ToUpper(text)
                   [] rule = "STRING"          -> Slice(text, 1, Len(text) - 1)
                   [] rule = "NUMBER"          -> ToInt(text)
                   [] OTHER                    -> text,
      lineno |-> line,
      lexpos |-> pos,
      endpos |-> end]

\* (mutant) t_error skipping two characters
ErrorSkipTwo(pos) == pos + 2

\* (mutant) t_error skipping nothing
ErrorSkipNone(pos) == pos

\* t_error: lexer.skip(1)
ErrorSkip(pos) == pos + 1

\* (mutant) t_newline counting a run of newlines as one line
NewlineCountOne(pos, end) == 1

\* t_newline: lineno += len(t.value)
NewlineCount(pos, end) == end - pos

RECURSIVE Flatten(_)
Flatten(ss) == IF ss = <<>> THEN <<>> ELSE Head(ss) \o Flatten(Tail(ss))

Repeat(c, n) == [i \in 1 .. n |-> c]

\* the one element of a one-element set
The(S) == CHOOSE x \in S : TRUE

\* one pass of the loop of token() at pos < Len(data)
ScanStep(data, pos, line) ==
  IF data[pos + 1] \in Ignore
  THEN [kind |-> "ignore", tok |-> NoToken, from |-> pos, to |-> pos + 1,
        line |-> line, nl |-> 0]
  ELSE The({
         IF k = 0
         THEN [kind |-> "error", tok |-> NoToken, from |-> pos,
               to |-> ErrorSkip(pos), line |-> line, nl |-> 0]
         ELSE The({
                IF RuleOrder[k] = "newline"
                THEN [kind |-> "newline", tok |-> NoToken, from |-> pos,
                      to |-> end, line |-> line, nl |-> NewlineCount(pos, end)]
                ELSE [kind |-> "token",
                      tok  |-> RuleToken(RuleOrder[k], data, pos, end, line),
                      from |-> pos, to |-> end, line |-> line, nl |-> 0]
                : end \in {MatchEnd(RuleOrder[k], data, pos)}})
         : k \in {FirstMatch(data, pos)}})

\* the diagnostic t_error prints: the character, the line, the scan position
Diagnostic(data, pos, line) ==
  [char |-> data[pos + 1], line |-> line, column |-> pos]

\* what token() does after the pass st made at pos: return the token, raise
\* LexError when the error rule left the position where it was, or go on
RECURSIVE Pull(_, _, _)
AfterPass(data, pos, line, st) ==
  IF st.kind = "token"
  THEN [tok |-> st.tok, pos |-> st.to, line |-> line,
        passes |-> <<st>>, diags |-> <<>>, end |-> "token"]
  ELSE IF st.to = pos
  THEN [tok |-> NoToken, pos |-> pos, line |-> line, passes |-> <<st>>,
        diags |-> <<Diagnostic(data, pos, line)>>, end |-> "aborted"]
  ELSE [Pull(data, st.to, line + st.nl) EXCEPT
          !.passes = <<st>> \o @,
          !.diags  = IF st.kind = "error"
                     THEN <<Diagnostic(data, pos, line)>> \o @
                     ELSE @]

\* token() from pos: the passes made, until a token is returned, the buffer
\* is exhausted, or LexError is raised
Pull(data, pos, line) ==
  IF pos >= Len(data)
  THEN [tok |-> NoToken, pos |-> pos, line |-> line, passes |-> <<>>,
        diags |-> <<>>, end |-> "eof"]
  ELSE The({AfterPass(data, pos, line, st) : st \in {ScanStep(data, pos, line)}})

\* the tokens `for tok in lexer` collects from pos on, until token() is None
RECURSIVE TokensFrom(_, _, _)
TokensFrom(data, pos, line) ==
  The({IF r.end = "token"
       THEN <<r.tok>> \o TokensFrom(data, r.pos, r.line)
       ELSE <<>>
       : r \in {Pull(data, pos, line)}})

\* lexer.input(data) on the lexer as built, then every token of the run
Tokenize(data) == TokensFrom(data, 0, 1)

----------------------------------------------------------------------------
(* The syntax tree of src/ast.py.  A node is a record of its class name    *)
(* and its attributes; a text attribute is a sequence of characters, and   *)
(* a printed text is a sequence of pieces: the literal pieces of the       *)
(* format strings, which hold no newline, and the characters of the        *)
(* attributes that are formatted into them.                                *)

ProgramNode(declarations, line_num) ==
  [cls |-> "ProgramNode", line_number |-> line_num,
   declarations |-> declarations]

RoleDefNode(name, actions, line_num) ==
  [cls |-> "RoleDefNode", line_number |-> line_num, name |-> name,
   actions |-> actions]

UserDefNode(name, role, line_num) ==
  [cls |-> "UserDefNode", line_number |-> line_num, name |-> name,
   role |-> role]

ResourceDefNode(name, path, line_num) ==
  [cls |-> "ResourceDefNode", line_number |-> line_num, name |-> name,
   path |-> path]

PolicyNode(policy_type, actions, resources, condition, line_num) ==
  [cls |-> "PolicyNode", line_number |-> line_num,
   policy_type |-> policy_type, actions |-> actions,
   resources |-> resources, condition |-> condition]

ConditionNode(operator, left, right, line_num) ==
  [cls |-> "ConditionNode", line_number |-> line_num, operator |-> operator,
   left |-> left, right |-> right]

ComparisonNode(operator, left, right, line_num) ==
  [cls |-> "ComparisonNode", line_number |-> line_num, operator |-> operator,
   left |-> left, right |-> right]

ArithmeticExprNode(operator, left, right, line_num) ==
  [cls |-> "ArithmeticExprNode", line_number |-> line_num,
   operator |-> operator, left |-> left, right |-> right]

UnaryExprNode(operator, operand, line_num) ==
  [cls |-> "UnaryExprNode", line_number |-> line_num, operator |-> operator,
   operand |-> operand]

AttributeAccessNode(object_name, attribute_name, line_num) ==
  [cls |-> "AttributeAccessNode", line_number |-> line_num,
   object_name |-> object_name, attribute_name |-> attribute_name]

IdentifierNode(value, line_num) ==
  [cls |-> "IdentifierNode", line_number |-> line_num, value |-> value]

NumberNode(value, line_num) ==
  [cls |-> "NumberNode", line_number |-> line_num, value |-> value]

StringNode(value, line_num) ==
  [cls |-> "StringNode", line_number |-> line_num, value |-> value]

WildcardNode(line_num) ==
  [cls |-> "WildcardNode", line_number |-> line_num, value |-> <<"*">>]

\* (mutant) every condition taken as present
TruthyAlways(x) == TRUE

\* `if node.condition:` for a node or None: an object without __bool__ and
\* __len__ is true, None is false
Truthy(x) == x # None

\* str(n) of an integer
RECURSIVE IntToText(_)
IntToText(n) ==
  IF n < 0 THEN <<"-">> \o IntToText(-n)
  ELSE IF n < 10 THEN <<DigitSeq[n + 1]>>
  ELSE IntToText(n \div 10) \o <<DigitSeq[(n % 10) + 1]>>

\* sep.join(items)
RECURSIVE Join(_, _)
Join(sep, items) ==
  IF items = <<>> THEN <<>>
  ELSE IF Len(items) = 1 THEN items[1]
  ELSE items[1] \o <<sep>> \o Join(sep, Tail(items))

\* actions_str of RoleDefNode.__repr__ and PolicyNode.__repr__
ActionsStr(actions) ==
  IF actions = << <<"*">> >> THEN <<"*">> ELSE Join(", ", actions)

\* str(node): the __repr__ of the node's class; str(None) is "None"
RECURSIVE Repr(_)
Repr(node) ==
  CASE node = None -> <<"None">>
    [] node.cls = "ProgramNode" ->
         <<"ProgramNode(">> \o IntToText(Len(node.declarations))
           \o <<" declarations)">>
    [] node.cls = "RoleDefNode" ->
         <<"RoleDefNode(name='">> \o node.name \o <<"', actions=[">>
           \o ActionsStr(node.actions) \o <<"])">>
    [] node.cls = "UserDefNode" ->
         <<"UserDefNode(name='">> \o node.name \o <<"', role='">>
           \o node.role \o <<"')">>
    [] node.cls = "ResourceDefNode" ->
         <<"ResourceDefNode(name='">> \o node.name \o <<"', path='">>
           \o node.path \o <<"')">>
    [] node.cls = "PolicyNode" ->
         <<"PolicyNode(type='", node.policy_type, "', actions=[">>
           \o ActionsStr(node.actions) \o <<"], resources='">>
           \o node.resources \o <<"'">>
           \o (IF Truthy(node.condition)
               THEN <<", condition=">> \o Repr(node.condition) ELSE <<>>)
           \o <<")">>
    [] node.cls \in {"ConditionNode", "ComparisonNode", "ArithmeticExprNode"} ->
         <<node.cls, "(operator='", node.operator, "', left=">>
           \o Repr(node.left) \o <<", right=">> \o Repr(node.right)
           \o <<")">>
    [] node.cls = "UnaryExprNode" ->
         <<"UnaryExprNode(operator='", node.operator, "', operand=">>
           \o Repr(node.operand) \o <<")">>
    [] node.cls = "AttributeAccessNode" ->
         <<"AttributeAccessNode(object='">> \o node.object_name
           \o <<"', attribute='">> \o node.attribute_name \o <<"')">>
    [] node.cls = "IdentifierNode" ->
         <<"IdentifierNode(value='">> \o node.value \o <<"')">>
    [] node.cls = "NumberNode" ->
         <<"NumberNode(value=">> \o IntToText(node.value) \o <<")">>
    [] node.cls = "StringNode" ->
         <<"StringNode(value='">> \o node.value \o <<"')">>
    [] node.cls = "WildcardNode" -> <<"WildcardNode()">>

\* the prefixes of print_ast, each one piece of text: the box-drawing
\* characters U+251C (tee) and U+2514 (corner), each followed by two U+2500
\* (dash) and a space, are written here with |, + and -
Tee == "|-- "

Corner == "+-- "

CornerCondition == "+-- condition: "

\* print_ast(node, indent, prefix): the texts handed to print(), in order
RECURSIVE print_ast(_, _, _)
print_ast(node, indent, prefix) ==
  IF node = None THEN <<>>
  ELSE
    << Flatten(Repeat(<<" ", " ">>, indent)) \o <<prefix>> \o Repr(node) >> \o
    ( CASE node.cls = "ProgramNode" ->
             Flatten([i \in DOMAIN node.declarations |->
                        print_ast(node.declarations[i], indent + 1,
                                  IF i - 1 # Len(node.declarations) - 1
                                  THEN Tee ELSE Corner)])
        [] node.cls \in {"ConditionNode", "ComparisonNode",
                         "ArithmeticExprNode"} ->
             print_ast(node.left, indent + 1, Tee)
               \o print_ast(node.right, indent + 1, Corner)
        [] node.cls = "UnaryExprNode" ->
             print_ast(node.operand, indent + 1, Corner)
        [] node.cls = "PolicyNode" ->
             IF Truthy(node.condition)
             THEN print_ast(node.condition, indent + 1, CornerCondition)
             ELSE <<>>
        [] OTHER -> <<>> )

\* ast_to_dict(node): a dict is a record of its keys
RECURSIVE ast_to_dict(_)
ast_to_dict(node) ==
  CASE node = None -> None
    [] node.cls = "ProgramNode" ->
         [type |-> node.cls, line |-> node.line_number,
          declarations |-> [i \in DOMAIN node.declarations |->
                              ast_to_dict(node.declarations[i])]]
    [] node.cls = "RoleDefNode" ->
         [type |-> node.cls, line |-> node.line_number,
          name |-> node.name, actions |-> node.actions]
    [] node.cls = "UserDefNode" ->
         [type |-> node.cls, line |-> node.line_number,
          name |-> node.name, role |-> node.role]
    [] node.cls = "ResourceDefNode" ->
         [type |-> node.cls, line |-> node.line_number,
          name |-> node.name, path |-> node.path]
    [] node.cls = "PolicyNode" ->
         IF Truthy(node.condition)
         THEN [type |-> node.cls, line |-> node.line_number,
               policy_type |-> node.policy_type, actions |-> node.actions,
               resources |-> node.resources,
               condition |-> ast_to_dict(node.condition)]
         ELSE [type |-> node.cls, line |-> node.line_number,
               policy_type |-> node.policy_type, actions |-> node.actions,
               resources |-> node.resources]
    [] node.cls \in {"ConditionNode", "ComparisonNode", "ArithmeticExprNode"} ->
         [type |-> node.cls, line |-> node.line_number,
          operator |-> node.operator, left |-> ast_to_dict(node.left),
          right |-> ast_to_dict(node.right)]
    [] node.cls = "UnaryExprNode" ->
         [type |-> node.cls, line |-> node.line_number,
          operator |-> node.operator, operand |-> ast_to_dict(node.operand)]
    [] node.cls = "AttributeAccessNode" ->
         [type |-> node.cls, line |-> node.line_number,
          object |-> node.object_name, attribute |-> node.attribute_name]
    [] node.cls \in {"IdentifierNode", "NumberNode", "StringNode"} ->
         [type |-> node.cls, line |-> node.line_number, value |-> node.value]
    [] node.cls = "WildcardNode" ->
         [type |-> node.cls, line |-> node.line_number, value |-> <<"*">>]

----------------------------------------------------------------------------
(* The lexer object and its two operations.                                *)
(* lexdata, lexpos, lineno are the lexer's attributes.  phase is "new"     *)
(* before the first input(), "ready" while tokens can be pulled, "eof"     *)
(* once token() has returned None (the callers, list(lexer) and            *)
(* `for tok in lexer`, stop pulling there), "aborted" after a LexError.    *)
(* toks, diags and steps record what the current run has returned, printed *)
(* and scanned; line0 is the line counter the run started with.  prev      *)
(* records of the run before the current one whether its text held a ':'   *)
(* and how far it was pulled; mine holds, for each of two callers of the   *)
(* module's lexer, the caller's text, its place in `lexer.input(text);     *)
(* for tok in lexer`, and the tokens it has obtained.  root is the tree    *)
(* handed to print_ast and ast_to_dict; output holds, once print_ast has   *)
(* run, the texts it printed, and result, once ast_to_dict has run, the    *)
(* dict it returned.                                                       *)

NoRun == [colon |-> FALSE, pulled |-> "no run"]

Callers == {1, 2}

Idle == [text |-> <<>>, at |-> "idle", got |-> <<>>]

LexerBuilt ==
  /\ lexdata = <<>>
  /\ lexpos = 0
  /\ lineno = 1
  /\ phase = "new"
  /\ toks = <<>>
  /\ diags = <<>>
  /\ steps = <<>>
  /\ line0 = 1
  /\ prev = NoRun
  /\ mine = [c \in Callers |-> Idle]

Init ==
  /\ LexerBuilt
  /\ root = None
  /\ result = <<>>
  /\ output = <<>>

\* (mutant) input() adding the text to the buffer and scanning on from there
SetInputAppends(s) ==
  /\ lexdata' = lexdata \o s
  /\ lexpos' = Len(lexdata)
  /\ lineno' = lineno
  /\ phase' = "ready"
  /\ toks' = <<>>
  /\ diags' = <<>>
  /\ steps' = <<>>
  /\ line0' = lineno

\* lexer.input(s): a new buffer, the position back to 0; lineno is not touched
SetInput(s) ==
  /\ lexdata' = s
  /\ lexpos' = 0
  /\ lineno' = lineno
  /\ phase' = "ready"
  /\ toks' = <<>>
  /\ diags' = <<>>
  /\ steps' = <<>>
  /\ line0' = lineno

\* lexer.token(): scan from lexpos; at the end of the buffer lexpos is set
\* one further and None is returned
TokenCall ==
  /\ \E r \in {Pull(lexdata, lexpos, lineno)} :
       /\ lexpos' = IF r.end = "eof" THEN r.pos + 1 ELSE r.pos
       /\ lineno' = r.line
       /\ phase' = IF r.end = "token" THEN "ready" ELSE r.end
       /\ toks' = IF r.end = "token" THEN Append(toks, r.tok) ELSE toks
       /\ diags' = diags \o r.diags
       /\ steps' = steps \o r.passes
  /\ UNCHANGED <<lexdata, line0, prev>>

\* lexer.token(), as the iteration over the lexer calls it: until None
Token ==
  /\ phase = "ready"
  /\ TokenCall
  /\ UNCHANGED <<mine, astVars>>

----------------------------------------------------------------------------
(* Input texts.                                                            *)

\* every text of at most n characters of A
TextsOver(A, n) == UNION {[1 .. k -> A] : k \in 0 .. n}

\* every concatenation of at most n fragments of F
TextsOf(F, n) == {Flatten(fs) : fs \in UNION {[1 .. k -> F] : k \in 0 .. n}}

\* --- reuse of one lexer over several inputs
MaxRunLen == 3

MaxLine == 3

RunChars == {"a", "\n", "#", "*"}

RunTexts == TextsOver(RunChars, MaxRunLen)

\* --- trees: every variant over every variant as child, and programs of
\* declarations with conditions some levels deep
MaxDecls == 2

LineNums == {0, 4}

Kids ==
  { None, ProgramNode(<<>>, 0), RoleDefNode(<<"A">>, << <<"*">> >>, 1),
    UserDefNode(<<"J">>, <<"D">>, 2), ResourceDefNode(<<"R">>, <<"/">>, 3),
    PolicyNode("DENY", << <<"r">> >>, <<"R">>, None, 4),
    AttributeAccessNode(<<"t">>, <<"h">>, 5), IdentifierNode(<<"x">>, 5),
    NumberNode(17, 5), StringNode(<<"a", "\n", "b">>, 5), WildcardNode(5) }

Leaves ==
  UNION {{IdentifierNode(<<"x">>, l), IdentifierNode(<<"y">>, l),
          NumberNode(0, l), NumberNode(17, l), StringNode(<<>>, l),
          StringNode(<<"s">>, l), AttributeAccessNode(<<"t">>, <<"h">>, l),
          AttributeAccessNode(<<"u">>, <<"h">>, l),
          AttributeAccessNode(<<"t">>, <<"d">>, l), WildcardNode(l)}
         : l \in LineNums}

OverKids ==
  UNION {{UnaryExprNode("-", k, l), UnaryExprNode("+", k, l),
          PolicyNode("ALLOW", << <<"*">> >>, <<"R">>, k, l)}
         : k \in Kids, l \in LineNums}
  \cup {ConditionNode("AND", a, b, 4) : a, b \in Kids}
  \cup {ComparisonNode("==", a, b, 4) : a, b \in Kids}
  \cup {ArithmeticExprNode("*", a, b, 4) : a, b \in Kids}
  \cup {ProgramNode(ds, 0) : ds \in UNION {[1 .. k -> Kids] : k \in 0 .. MaxDecls}}

Exprs ==
  { NumberNode(9, 5), AttributeAccessNode(<<"t">>, <<"h">>, 5),
    UnaryExprNode("-", NumberNode(5, 5), 5),
    ArithmeticExprNode("+", NumberNode(3, 5),
      ArithmeticExprNode("*", NumberNode(4, 5), NumberNode(10, 5), 5), 5) }

Comparisons ==
  {ComparisonNode(op, a, NumberNode(9, 5), 5) : op \in {">", "<="}, a \in Exprs}

Conditions ==
  Comparisons
  \cup {ConditionNode(op, ComparisonNode("==", IdentifierNode(<<"x">>, 5),
                                         StringNode(<<"s">>, 5), 5), c, 5)
        : op \in {"AND", "OR"}, c \in Comparisons}

Declarations ==
  { RoleDefNode(<<"A">>, << <<"*">> >>, 1),
    RoleDefNode(<<"A">>, << <<"r">>, <<"w">> >>, 1),
    RoleDefNode(<<"B">>, << <<"r">> >>, 1),
    UserDefNode(<<"J">>, <<"D">>, 2), UserDefNode(<<"J">>, <<"A">>, 2),
    ResourceDefNode(<<"R">>, <<"/">>, 3),
    ResourceDefNode(<<"R">>, <<"a", "\n", "b">>, 3),
    PolicyNode("ALLOW", << <<"r">>, <<"w">> >>, <<"R">>, None, 4),
    PolicyNode("DENY", << <<"*">> >>, <<"R">>, None, 4) }
  \cup {PolicyNode("ALLOW", << <<"r">> >>, <<"R">>, c, 4) : c \in Conditions}

Programs ==
  {ProgramNode(ds, 0) : ds \in UNION {[1 .. k -> Declarations] : k \in 0 .. MaxDecls}}

Trees == Kids \cup Leaves \cup OverKids \cup Declarations \cup Programs

\* --- two callers of the one lexer
MaxCallLen == 2

CallChars == {"a", "*", "\n"}

CallTexts == TextsOver(CallChars, MaxCallLen)

\* --- comparison operators, side by side and in strings
MaxOpLen == 4

OpChars == {"<", ">", "=", "!", "a", "\""}

OpTexts == TextsOver(OpChars, MaxOpLen)

\* --- reuse with a `*` in and out of a brace block
MaxReuseFrags == 2

ReuseFrags == { <<"{", ":">>, <<"*">>, <<"a">>, <<"\n">> }

ReuseTexts == TextsOf(ReuseFrags, MaxReuseFrags)

\* --- one input over a small alphabet: layout, errors, strings
MaxLen == 4

ScanChars == {"a", "3", " ", "\n", "#", "=", "\""}

ScanTexts == TextsOver(ScanChars, MaxLen)

\* --- `*` in context: a few fragments around a `*`, after an optional
\* opening; the long openings end in a run of identifier characters that
\* puts their first character at the edge of the look-back window
MaxFrags == 3

Pad == Repeat("x", Window - 3)

StarLeads == {<<>>, <<"{">>, <<"{">> \o Pad, <<":">> \o Pad}

StarFrags ==
  { <<"c","a","n">>, <<":">>, <<" ">>, <<"*">>, <<"{">>, <<"}">>, <<",">>,
    <<"O","N">>, <<"x">>, <<"3">>, <<"(">>, <<"P","a","t","h">>, <<"\"">> }

StarTexts == {l \o t : l \in StarLeads, t \in TextsOf(StarFrags, MaxFrags)}

\* --- words: every letter-casing of the twelve keywords, alone or extended
MaxSuffix == 1

Words ==
  {Literal(r) : r \in {"ROLE", "USER", "RESOURCE", "ALLOW", "DENY", "IF", "ON",
                       "AND", "OR", "CAN", "PATH", "ACTION"}}

Casings(w) ==
  {[i \in DOMAIN w |-> IF i \in up THEN w[i] ELSE LowerChar(w[i])] :
     up \in SUBSET DOMAIN w}

WordPrefixes == {<<>>, <<" ">>, <<"(">>}

SuffixChars == {"X", "e", "_", "1", " ", ":"}

WordTexts ==
  {pre \o c \o suf : pre \in WordPrefixes,
                     c \in UNION {Casings(w) : w \in Words},
                     suf \in TextsOver(SuffixChars, MaxSuffix)}

----------------------------------------------------------------------------
(* Specifications.                                                         *)

\* input() at any moment of a run, complete or abandoned
Input ==
  /\ lineno <= MaxLine
  /\ \E s \in RunTexts : SetInput(s)
  /\ UNCHANGED <<prev, mine, astVars>>

\* input() once, on the lexer as built
InputScan ==
  /\ phase = "new"
  /\ \E s \in ScanTexts : SetInput(s)
  /\ UNCHANGED <<prev, mine, astVars>>

InputOps ==
  /\ phase = "new"
  /\ \E s \in OpTexts : SetInput(s)
  /\ UNCHANGED <<prev, mine, astVars>>

InputStar ==
  /\ phase = "new"
  /\ \E s \in StarTexts : SetInput(s)
  /\ UNCHANGED <<prev, mine, astVars>>

InputWord ==
  /\ phase = "new"
  /\ \E s \in WordTexts : SetInput(s)
  /\ UNCHANGED <<prev, mine, astVars>>

\* how far the current run has been pulled
Pulled ==
  CASE phase = "new" -> "no run"
    [] phase = "eof" -> "fully"
    [] lexpos = 0    -> "not at all"
    [] OTHER         -> "partly"

\* input() at any moment of a run, the run it ends being noted
InputReuse ==
  /\ lineno <= MaxLine
  /\ \E s \in ReuseTexts : SetInput(s)
  /\ prev' = [colon |-> Count(lexdata, ":") > 0, pulled |-> Pulled]
  /\ UNCHANGED <<mine, astVars>>

\* the tree a caller has built
InitAst ==
  /\ LexerBuilt
  /\ root \in Trees
  /\ result = <<>>
  /\ output = <<>>

\* print_ast(root), once
PrintAst ==
  /\ output = <<>>
  /\ output' = <<print_ast(root, 0, "")>>
  /\ UNCHANGED <<lexdata, lexpos, lineno, phase, toks, diags, steps, line0,
                 prev, mine, root, result>>

\* ast_to_dict(root), once
AstToDict ==
  /\ result = <<>>
  /\ result' = <<ast_to_dict(root)>>
  /\ UNCHANGED <<lexdata, lexpos, lineno, phase, toks, diags, steps, line0,
                 prev, mine, root, output>>

NextAst == PrintAst \/ AstToDict

\* caller c: lexer.input(text) on the module's lexer
CallerInput(c) ==
  /\ mine[c].at = "idle"
  /\ \E s \in CallTexts :
       /\ SetInput(s)
       /\ mine' = [mine EXCEPT ![c] = [text |-> s, at |-> "pulling", got |-> <<>>]]
  /\ UNCHANGED <<prev, astVars>>

\* caller c: one round of `for tok in lexer`: the token returned is kept,
\* None ends the loop
CallerToken(c) ==
  /\ mine[c].at = "pulling"
  /\ TokenCall
  /\ mine' = [mine EXCEPT ![c] =
                IF Len(toks') > Len(toks)
                THEN [@ EXCEPT !.got = Append(@, toks'[Len(toks')])]
                ELSE [@ EXCEPT !.at = "done"]]
  /\ UNCHANGED astVars

NextShared == \E c \in Callers : CallerInput(c) \/ CallerToken(c)

Next == Input \/ Token

NextReuse == InputReuse \/ Token

NextOps == InputOps \/ Token

NextScan == InputScan \/ Token

NextStar == InputStar \/ Token

NextWord == InputWord \/ Token

Spec == Init /\ [][Next]_vars

SpecAst == InitAst /\ [][NextAst]_vars

SpecOps == Init /\ [][NextOps]_vars

SpecReuse == Init /\ [][NextReuse]_vars

SpecShared == Init /\ [][NextShared]_vars

SpecScan == Init /\ [][NextScan]_vars

SpecStar == Init /\ [][NextStar]_vars

SpecWord == Init /\ [][NextWord]_vars

----------------------------------------------------------------------------
(* What the claims speak of, read off the buffer and the run's record.     *)

\* the tokens emitted for a `*`
StarToks == {i \in DOMAIN toks : toks[i].type \in {"TIMES", "WILDCARD"}}

\* the text t_TIMES looks back over for a `*` at position p: the window ends
\* with the `*` itself, so it reaches Window - 1 characters back
LookBack(p) == Slice(lexdata, Max(0, p + 1 - Window), p)

\* position q lies within the lexeme of an emitted token
Covered(q) ==
  \E i \in DOMAIN toks : toks[i].lexpos <= q /\ q < toks[i].endpos

\* position q lies inside the lexeme of a token that began before q
InLexeme(q) ==
  \E i \in DOMAIN toks : toks[i].lexpos < q /\ q < toks[i].endpos

\* position q lies strictly inside a string literal
InString(q) ==
  \E i \in DOMAIN toks :
    toks[i].type = "STRING" /\ toks[i].lexpos < q /\ q < toks[i].endpos

\* the maximal runs of identifier characters of the buffer, as <<start, end>>
IdentRuns ==
  {<<p, RunEnd(lexdata, p, IdentChar)>> :
     p \in {q \in 0 .. Len(lexdata) - 1 :
              /\ lexdata[q + 1] \in IdentStart
              /\ q = 0 \/ lexdata[q] \notin IdentChar}}

ReservedWords ==
  {Literal(r) : r \in {"ROLE", "USER", "RESOURCE", "ALLOW", "DENY", "IF", "ON",
                       "AND", "OR"}}

AttributeWords == {Literal(r) : r \in {"CAN", "PATH", "ACTION"}}

\* the token type named like the keyword whose uppercase spelling is u
KindOf(u) == CHOOSE r \in {RuleOrder[n] : n \in 1 .. 12} : Literal(r) = u

----------------------------------------------------------------------------
(* C1 - C10                                                                *)

\* C1: after input() the line counter is 1: every token of the current text
\* that precedes the text's first newline carries line number 1, whatever
\* was tokenized on the lexer before.
C1_FreshInputStartsAtLineOne ==
  \A i \in DOMAIN toks :
    Count(Slice(lexdata, 0, toks[i].lexpos), "\n") = 0 => toks[i].lineno = 1

\* C2: for every `*`: if the nearest ':' before it in the scan window is
\* separated from it by nothing or only whitespace, and the text before that
\* ':' (trailing whitespace ignored) ends with can, action or path in any
\* letter case, then the token emitted for the `*` is WILDCARD, whatever
\* follows the `*`.
C2_AttributeColonGivesWildcard ==
  \A i \in StarToks :
    LET p == toks[i].lexpos
        w == LookBack(p)
        c == RFind(w, ":")
        colon == Max(0, p + 1 - Window) + c
    IN (/\ c >= 0
        /\ Strip(Slice(w, c + 1, Len(w))) = <<>>
        /\ EndsWithAttribute(ToLower(Strip(Slice(lexdata, 0, colon)))))
       => toks[i].type = "WILDCARD"

C4_StarIsOneTokenTimesWithoutColon ==
  \A p \in 0 .. Len(lexdata) - 1 :
    (lexdata[p + 1] = "*" /\ p < lexpos /\ ~InString(p)) =>
      LET at == {i \in DOMAIN toks : toks[i].lexpos = p}
      IN /\ Cardinality(at) = 1
         /\ \A i \in at :
              /\ toks[i].type \in {"TIMES", "WILDCARD"}
              /\ toks[i].endpos = p + 1
              /\ RFind(LookBack(p), ":") < 0 => toks[i].type = "TIMES"

\* C4 witness: a `*` whose only preceding colon lies beyond the window, and
\* which is followed by more text, has been emitted as TIMES.
C4_ColonBeyondWindowSeen ==
  \E i \in StarToks :
    LET p == toks[i].lexpos
    IN /\ toks[i].type = "TIMES"
       /\ RFind(Slice(lexdata, 0, p), ":") >= 0
       /\ RFind(LookBack(p), ":") < 0
       /\ p + 1 < Len(lexdata)

\* C5: a maximal run of identifier characters whose full text is not a
\* reserved word or an attribute keyword is emitted as one IDENTIFIER token
\* carrying the full text, also when it begins with a keyword.
C5_IdentifierNeverSplit ==
  \A r \in IdentRuns :
    LET text == Slice(lexdata, r[1], r[2])
    IN (/\ r[2] <= lexpos
        /\ text \notin ReservedWords
        /\ ToUpper(text) \notin AttributeWords)
       => \E i \in DOMAIN toks :
            /\ toks[i].lexpos = r[1]
            /\ toks[i].endpos = r[2]
            /\ toks[i].type = "IDENTIFIER"
            /\ toks[i].value = text

Illegal(q) ==
  /\ lexdata[q + 1] \notin Ignore \cup {"\n"}
  /\ FirstMatch(lexdata, q) = 0

\* the newline characters before position q that newline runs consumed
NewlinesBefore(q) ==
  Cardinality({n \in 0 .. q - 1 : lexdata[n + 1] = "\n" /\ ~Covered(n)})

\* the passes made so far tile the buffer from 0 on, each ending after it began
StepsAdvance ==
  \A k \in DOMAIN steps :
    /\ steps[k].to > steps[k].from
    /\ steps[k].from = IF k = 1 THEN 0 ELSE steps[k - 1].to
    /\ steps[k].to <= Len(lexdata)

C8_ScanTerminates ==
  /\ [](/\ StepsAdvance
        /\ Len(steps) <= Len(lexdata)
        /\ phase # "aborted"
        /\ lexpos <= Len(lexdata) + 1
        /\ phase = "ready" => lexpos <= Len(lexdata))
  /\ [][Token => /\ lexpos' > lexpos
                 /\ phase' = "eof" \/ Len(steps') > Len(steps)
                 /\ phase' = "eof" <=> lexpos' = Len(lexdata) + 1]_vars

\* C8 witness: a run has reached end of stream after as many passes as the
\* text has characters, with a pass of each of the four kinds.
C8_EveryKindOfPassSeen ==
  /\ phase = "eof"
  /\ Len(steps) = Len(lexdata)
  /\ {steps[k].kind : k \in DOMAIN steps} = {"token", "ignore", "newline", "error"}

\* C9: for consecutive tokens t1, t2 of one input, line(t2) >= line(t1) and
\* line(t2) - line(t1) is the number of newline characters between the two
\* lexemes (the newlines the newline runs between them consumed).
C9_LinesFollowNewlines ==
  \A i \in DOMAIN toks :
    i > 1 =>
      /\ toks[i].lineno >= toks[i - 1].lineno
      /\ toks[i].lineno - toks[i - 1].lineno
           = Count(Slice(lexdata, toks[i - 1].endpos, toks[i].lexpos), "\n")

\* C9 witness: two consecutive tokens are two lines apart.
C9_TwoLinesApartSeen ==
  \E i \in DOMAIN toks : i > 1 /\ toks[i].lineno = toks[i - 1].lineno + 2

\* C10: every STRING token is a double-quoted span of the text with no
\* double quote and no newline between its quotes, and its value is the text
\* between the quotes.
C10_StringHasNoQuoteNoNewline ==
  \A i \in DOMAIN toks :
    toks[i].type = "STRING" =>
      LET inner == Slice(lexdata, toks[i].lexpos + 1, toks[i].endpos - 1)
      IN /\ lexdata[toks[i].lexpos + 1] = "\""
         /\ lexdata[toks[i].endpos] = "\""
         /\ toks[i].endpos >= toks[i].lexpos + 2
         /\ Count(inner, "\"") = 0
         /\ Count(inner, "\n") = 0
         /\ toks[i].value = inner

----------------------------------------------------------------------------
(* C11 - C15                                                               *)

\* the kinds and values of a sequence of tokens
KindsValues(ts) == [i \in DOMAIN ts |-> <<ts[i].type, ts[i].value>>]

\* C11: whatever was tokenized on the lexer before and however far it was
\* pulled, the tokens pulled so far for the current text have the kinds and
\* values of the first tokens the same text gives on a lexer as built, and
\* at end of stream of all of them: the WILDCARD/TIMES decision for a `*`
\* included.
C11_NoResidualContext ==
  \E fresh \in {KindsValues(Tokenize(lexdata))} :
    /\ Len(toks) <= Len(fresh)
    /\ KindsValues(toks) = SubSeq(fresh, 1, Len(toks))
    /\ phase = "eof" => Len(toks) = Len(fresh)

\* C11 witness: after a run over a text with a ':' was abandoned partway,
\* a text without ':' has been pulled to its end with its `*` emitted as
\* TIMES, on a line counter the earlier runs had moved.
C11_StarAfterAbandonedColonSeen ==
  /\ prev.colon
  /\ prev.pulled = "partly"
  /\ line0 > 1
  /\ phase = "eof"
  /\ Count(lexdata, ":") = 0
  /\ \E i \in DOMAIN toks : toks[i].type = "TIMES"

\* the keys the dict of a node is to carry
KeysOf(n) ==
  {"type", "line"} \cup
  ( CASE n.cls = "ProgramNode"         -> {"declarations"}
      [] n.cls = "RoleDefNode"         -> {"name", "actions"}
      [] n.cls = "UserDefNode"         -> {"name", "role"}
      [] n.cls = "ResourceDefNode"     -> {"name", "path"}
      [] n.cls = "PolicyNode"          ->
           {"policy_type", "actions", "resources"}
             \cup (IF n.condition = None THEN {} ELSE {"condition"})
      [] n.cls \in {"ConditionNode", "ComparisonNode", "ArithmeticExprNode"} ->
           {"operator", "left", "right"}
      [] n.cls = "UnaryExprNode"       -> {"operator", "operand"}
      [] n.cls = "AttributeAccessNode" -> {"object", "attribute"}
      [] OTHER                         -> {"value"} )

\* the map d carries the class, the line and the field values of n, with
\* the children of n serialized in the same positions
RECURSIVE Carries(_, _)
Carries(n, d) ==
  IF n = None THEN d = None
  ELSE
    /\ d # None
    /\ DOMAIN d = KeysOf(n)
    /\ d.type = n.cls
    /\ d.line = n.line_number
    /\ CASE n.cls = "ProgramNode" ->
              /\ Len(d.declarations) = Len(n.declarations)
              /\ \A i \in DOMAIN n.declarations :
                   Carries(n.declarations[i], d.declarations[i])
         [] n.cls = "RoleDefNode" -> d.name = n.name /\ d.actions = n.actions
         [] n.cls = "UserDefNode" -> d.name = n.name /\ d.role = n.role
         [] n.cls = "ResourceDefNode" -> d.name = n.name /\ d.path = n.path
         [] n.cls = "PolicyNode" ->
              /\ d.policy_type = n.policy_type
              /\ d.actions = n.actions
              /\ d.resources = n.resources
              /\ n.condition # None => Carries(n.condition, d.condition)
         [] n.cls \in {"ConditionNode", "ComparisonNode", "ArithmeticExprNode"} ->
              /\ d.operator = n.operator
              /\ Carries(n.left, d.left)
              /\ Carries(n.right, d.right)
         [] n.cls = "UnaryExprNode" ->
              d.operator = n.operator /\ Carries(n.operand, d.operand)
         [] n.cls = "AttributeAccessNode" ->
              d.object = n.object_name /\ d.attribute = n.attribute_name
         [] OTHER -> d.value = n.value

\* the tree read back from a map: the variant from `type`, the line from
\* `line`, each field from its key, no condition where the key is absent
RECURSIVE FromDict(_)
FromDict(d) ==
  CASE d = None -> None
    [] d.type = "ProgramNode" ->
         ProgramNode([i \in DOMAIN d.declarations |->
                        FromDict(d.declarations[i])], d.line)
    [] d.type = "RoleDefNode" -> RoleDefNode(d.name, d.actions, d.line)
    [] d.type = "UserDefNode" -> UserDefNode(d.name, d.role, d.line)
    [] d.type = "ResourceDefNode" -> ResourceDefNode(d.name, d.path, d.line)
    [] d.type = "PolicyNode" ->
         PolicyNode(d.policy_type, d.actions, d.resources,
                    IF "condition" \in DOMAIN d
                    THEN FromDict(d.condition) ELSE None,
                    d.line)
    [] d.type = "ConditionNode" ->
         ConditionNode(d.operator, FromDict(d.left), FromDict(d.right), d.line)
    [] d.type = "ComparisonNode" ->
         ComparisonNode(d.operator, FromDict(d.left), FromDict(d.right), d.line)
    [] d.type = "ArithmeticExprNode" ->
         ArithmeticExprNode(d.operator, FromDict(d.left), FromDict(d.right),
                            d.line)
    [] d.type = "UnaryExprNode" ->
         UnaryExprNode(d.operator, FromDict(d.operand), d.line)
    [] d.type = "AttributeAccessNode" ->
         AttributeAccessNode(d.object, d.attribute, d.line)
    [] d.type = "IdentifierNode" -> IdentifierNode(d.value, d.line)
    [] d.type = "NumberNode" -> NumberNode(d.value, d.line)
    [] d.type = "StringNode" -> StringNode(d.value, d.line)
    [] d.type = "WildcardNode" -> WildcardNode(d.line)

\* C12: for every tree of the node variants, the map ast_to_dict returns
\* carries `type` and `line` and the variant's field values, the children
\* serialized recursively in the same positions and a `condition` key
\* exactly when the Policy has a condition; the tree is recovered from the
\* map, so that different trees have different maps; and the map of None
\* is None.
C12_SerializerRoundTrip ==
  result # <<>> =>
    /\ Carries(root, result[1])
    /\ FromDict(result[1]) = root
    /\ root = None <=> result[1] = None

\* C12 witness: a program has been serialized in which one policy has a
\* condition whose operands are themselves nodes with children, and
\* another policy has none.
C12_PoliciesWithAndWithoutConditionSeen ==
  /\ result # <<>>
  /\ root.cls = "ProgramNode"
  /\ \E i, j \in DOMAIN root.declarations :
       /\ root.declarations[i].cls = "PolicyNode"
       /\ root.declarations[i].condition.cls = "ConditionNode"
       /\ result[1].declarations[i].condition.right.left.type
            \in {"UnaryExprNode", "ArithmeticExprNode"}
       /\ root.declarations[j].cls = "PolicyNode"
       /\ root.declarations[j].condition = None
       /\ "condition" \notin DOMAIN result[1].declarations[j]

\* what print() wrote: each text followed by a newline
Written(calls) == Flatten([k \in DOMAIN calls |-> calls[k] \o <<"\n">>])

\* the lines of a written text, each without the newline that ends it
RECURSIVE LinesOf(_)
LinesOf(text) ==
  IF text = <<>> THEN <<>>
  ELSE The({<<SubSeq(text, 1, k - 1)>> \o LinesOf(SubSeq(text, k + 1, Len(text)))
            : k \in {CHOOSE i \in DOMAIN text :
                       /\ text[i] = "\n"
                       /\ \A j \in 1 .. i - 1 : text[j] # "\n"}})

\* the nodes print_ast is to visit, in pre-order, each with its depth and
\* the prefix its line is to carry
RECURSIVE Visits(_, _, _)
Visits(n, depth, prefix) ==
  IF n = None THEN <<>>
  ELSE
    << [node |-> n, depth |-> depth, prefix |-> prefix] >> \o
    ( CASE n.cls = "ProgramNode" ->
             Flatten([i \in DOMAIN n.declarations |->
                        Visits(n.declarations[i], depth + 1,
                               IF i = Len(n.declarations) THEN Corner ELSE Tee)])
        [] n.cls \in {"ConditionNode", "ComparisonNode", "ArithmeticExprNode"} ->
             Visits(n.left, depth + 1, Tee) \o Visits(n.right, depth + 1, Corner)
        [] n.cls = "UnaryExprNode" -> Visits(n.operand, depth + 1, Corner)
        [] n.cls = "PolicyNode" ->
             IF n.condition = None THEN <<>>
             ELSE Visits(n.condition, depth + 1, CornerCondition)
        [] OTHER -> <<>> )

\* C13: print_ast emits exactly one line per visited node, in pre-order:
\* the root at depth 0 with no prefix, a node at depth d behind 2*d spaces
\* and its prefix; the declarations of a Program in order, the last with
\* the corner prefix and the others with the tee prefix; left (tee) then
\* right (corner) of a Condition, Comparison or ArithmeticExpr; the operand
\* of a UnaryExpr (corner); the condition of a Policy, when present, with
\* the corner-condition prefix; no children of any other variant; nothing
\* for None.
C13_OneLinePerVisitedNode ==
  output # <<>> =>
    \E ls \in {LinesOf(Written(output[1]))}, vs \in {Visits(root, 0, "")} :
      /\ Len(ls) = Len(vs)
      /\ \A k \in DOMAIN vs :
           ls[k] = Repeat(" ", 2 * vs[k].depth) \o <<vs[k].prefix>>
                     \o Repr(vs[k].node)

\* the kinds, values and line numbers of a sequence of tokens
KindsValuesLines(ts) ==
  [i \in DOMAIN ts |-> <<ts[i].type, ts[i].value, ts[i].lineno>>]

\* C14: each of two callers whose runs on the lexer are interleaved obtains
\* the tokens, with the line numbers, that its text gives when tokenized
\* alone: what it has obtained so far are the first of them, and when its
\* loop has ended it has obtained all of them.
C14_InterleavedRunsAsAlone ==
  \A c \in Callers :
    mine[c].at # "idle" =>
      \E alone \in {KindsValuesLines(Tokenize(mine[c].text))} :
        /\ Len(mine[c].got) <= Len(alone)
        /\ KindsValuesLines(mine[c].got) = SubSeq(alone, 1, Len(mine[c].got))
        /\ mine[c].at = "done" => Len(mine[c].got) = Len(alone)

\* the two-character comparison operators and their kinds
Pairs == {"GE", "LE", "EQ", "NE"}

\* the scan has begun a pass at position p
Boundary(p) == \E k \in DOMAIN steps : steps[k].from = p

\* C15: wherever the scan comes to `==`, `!=`, `<=` or `>=` (a pass begins
\* at its first character), one token EQ, NE, LE or GE is emitted for the
\* two characters, and no illegal character is reported for the `=`; and
\* every LT or GT token is a single `<` or `>` that no `=` follows.
C15_OperatorPairsNotSplit ==
  /\ \A p \in 0 .. Len(lexdata) - 2 :
       \A r \in Pairs :
         (Boundary(p) /\ Slice(lexdata, p, p + 2) = Literal(r)) =>
           /\ \E i \in DOMAIN toks :
                /\ toks[i].lexpos = p
                /\ toks[i].endpos = p + 2
                /\ toks[i].type = r
                /\ toks[i].value = Literal(r)
           /\ Cardinality({i \in DOMAIN toks :
                             toks[i].lexpos <= p + 1 /\ p < toks[i].endpos}) = 1
           /\ \A j \in DOMAIN diags : diags[j].column \notin {p, p + 1}
  /\ \A i \in DOMAIN toks :
       toks[i].type \in {"LT", "GT"} =>
         /\ toks[i].endpos = toks[i].lexpos + 1
         /\ lexdata[toks[i].lexpos + 1] = (IF toks[i].type = "LT" THEN "<" ELSE ">")
         /\ toks[i].endpos < Len(lexdata) => lexdata[toks[i].endpos + 1] # "="

\* C15 witness: a single `<` or `>` has been emitted as LT or GT and the
\* two-character operator right after it as one token, in a run pulled to
\* its end.
C15_SingleThenPairSeen ==
  /\ phase = "eof"
  /\ \E i, j \in DOMAIN toks :
       /\ toks[j].type \in {"LT", "GT"}
       /\ toks[i].type \in Pairs
       /\ toks[i].lexpos = toks[j].endpos

====
